---- MODULE Spec2Model ----
(***************************************************************************)
(* Model of class Bot of my_classes/classes.py: the trading parameters,   *)
(* the kline retrieval, the lower bollinger band and the market buy /     *)
(* market sell pair, together with the exchange the Bot talks to through   *)
(* self.client.                                                            *)
(*                                                                         *)
(* Python values are encoded as follows.  An attribute holding a number   *)
(* is a sequence: <<>> when the attribute does not hold a number (None     *)
(* for trade_amount, attribute never assigned for amount), <<n>> when it   *)
(* holds n.  An attribute holding a string is a string; None and "never    *)
(* assigned" are the two reserved strings below.  A raised exception is    *)
(* recorded by the name of its Python class in call.status.                *)
(***************************************************************************)
EXTENDS Integers, Sequences, FiniteSets

VARIABLES
    connected,       \* self.client has been assigned (Bot.connect was called)
    asset,           \* self.asset
    trade_amount,    \* self.trade_amount
    time_interval,   \* self.time_interval
    amount,          \* self.amount
    entered,         \* place_market_buy has been called on this Bot
    order,           \* exchange side: the last market order received
    lastBuy,         \* exchange side: the last market buy accepted
    holding,         \* exchange side: a buy was accepted and no sell since
    nRequests,       \* exchange side: number of kline requests received
    request,         \* exchange side: the last kline request received
    response,        \* exchange side: the klines answered to that request
    last_20_closes,  \* local of get_bbands
    call             \* the last method call: name, arguments, outcome

vars == <<connected, asset, trade_amount, time_interval, amount, entered,
          order, lastBuy, holding, nRequests, request, response,
          last_20_closes, call>>

params == <<asset, trade_amount, time_interval>>
tradeVars == <<amount, entered, order, lastBuy, holding>>
dataVars == <<nRequests, request, response, last_20_closes>>

----------------------------------------------------------------------------
\* Bounds of the model.

MaxOrders == 4      \* orders the exchange receives in one run
MaxAmount == 5      \* trade amounts 1..MaxAmount
MaxPrice == 2       \* prices 0..MaxPrice
MaxRequests == 1    \* kline requests the exchange receives in one run
MaxLimit == 3       \* limit_ of a direct get_klines call
BandDigits == 3     \* fractional digits the band is carried with (at least 2)

----------------------------------------------------------------------------
\* Python values.

None == "<None>"
NoAttr == "<no attribute>"

Assets == {"BNBBTC", "ETHBTC"}
TradeAmounts == 1..MaxAmount
Prices == 0..MaxPrice
Closes == {1, 2}

\* (variant of kline_intervals: the table also maps the code 5m)
kline_intervals_5m ==
    [c \in {"5m", "15m", "30m", "1H", "2H", "4H", "6H", "12H", "1D"} |->
        CASE c = "5m"  -> "KLINE_INTERVAL_5MINUTE"
          [] c = "15m" -> "KLINE_INTERVAL_15MINUTE"
          [] c = "30m" -> "KLINE_INTERVAL_30MINUTE"
          [] c = "1H"  -> "KLINE_INTERVAL_1HOUR"
          [] c = "2H"  -> "KLINE_INTERVAL_2HOUR"
          [] c = "4H"  -> "KLINE_INTERVAL_4HOUR"
          [] c = "6H"  -> "KLINE_INTERVAL_6HOUR"
          [] c = "12H" -> "KLINE_INTERVAL_12HOUR"
          [] c = "1D"  -> "KLINE_INTERVAL_1DAY"]

\* kline_intervals of get_klines: interval code -> Client constant
kline_intervals ==
    [c \in {"15m", "30m", "1H", "2H", "4H", "6H", "12H", "1D"} |->
        CASE c = "15m" -> "KLINE_INTERVAL_15MINUTE"
          [] c = "30m" -> "KLINE_INTERVAL_30MINUTE"
          [] c = "1H"  -> "KLINE_INTERVAL_1HOUR"
          [] c = "2H"  -> "KLINE_INTERVAL_2HOUR"
          [] c = "4H"  -> "KLINE_INTERVAL_4HOUR"
          [] c = "6H"  -> "KLINE_INTERVAL_6HOUR"
          [] c = "12H" -> "KLINE_INTERVAL_12HOUR"
          [] c = "1D"  -> "KLINE_INTERVAL_1DAY"]

\* interval codes a caller hands to setup_params: the table's, and others
IntervalCodes == DOMAIN kline_intervals \cup {"5m", None}
\* the codes the runs of the order pair are set up with
TradeIntervalCodes == {"15m", "5m"}

NoCall == [op |-> "__init__", arg |-> <<>>, status |-> "ok", value |-> <<>>]
NoOrder == [id |-> 0, side |-> None, symbol |-> None, quantity |-> 0, ok |-> FALSE]
NoRequest == [symbol |-> None, interval |-> None, limit |-> 0]

\* (variant of Init: __init__ also sets self.amount = 0)
InitAmountZero ==
    /\ connected = FALSE
    /\ asset = None
    /\ trade_amount = <<>>
    /\ time_interval = NoAttr
    /\ amount = <<0>>
    /\ entered = FALSE
    /\ order = [id |-> 0, side |-> None, symbol |-> None, quantity |-> 0, ok |-> FALSE]
    /\ lastBuy = <<>>
    /\ holding = FALSE
    /\ nRequests = 0
    /\ request = [symbol |-> None, interval |-> None, limit |-> 0]
    /\ response = <<>>
    /\ last_20_closes = <<>>
    /\ call = [op |-> "__init__", arg |-> <<>>, status |-> "ok", value |-> <<>>]

\* Bot.__init__ ; client, time_interval and amount are not assigned there
Init ==
    /\ connected = FALSE
    /\ asset = None
    /\ trade_amount = <<>>
    /\ time_interval = NoAttr
    /\ amount = <<>>
    /\ entered = FALSE
    /\ order = NoOrder
    /\ lastBuy = <<>>
    /\ holding = FALSE
    /\ nRequests = 0
    /\ request = NoRequest
    /\ response = <<>>
    /\ last_20_closes = <<>>
    /\ call = NoCall

\* the outcome of a method call
Returned(op, arg, value) ==
    [op |-> op, arg |-> arg, status |-> "ok", value |-> value]
Raised(op, arg, exc) ==
    [op |-> op, arg |-> arg, status |-> exc, value |-> <<>>]

----------------------------------------------------------------------------
\* Bot.connect
Connect ==
    /\ ~connected
    /\ connected' = TRUE
    /\ call' = Returned("connect", <<>>, <<>>)
    /\ UNCHANGED <<params, tradeVars, dataVars>>

\* (variant of SetupParams: the interval is not stored)
SetupParamsKeepsInterval(asset_, trade_amount_, interval) ==
    /\ asset' = asset_
    /\ trade_amount' = <<trade_amount_>>
    /\ call' = [op |-> "setup_params", arg |-> <<asset_, trade_amount_, interval>>,
                status |-> "ok", value |-> <<>>]
    /\ UNCHANGED <<connected, time_interval, tradeVars, dataVars>>

\* Bot.setup_params
SetupParams(asset_, trade_amount_, interval) ==
    /\ asset' = asset_
    /\ trade_amount' = <<trade_amount_>>
    /\ time_interval' = interval
    /\ call' = Returned("setup_params", <<asset_, trade_amount_, interval>>, <<>>)
    /\ UNCHANGED <<connected, tradeVars, dataVars>>

----------------------------------------------------------------------------
\* The order pair.

\* (variant of IntOfQuotient: round(a / b), halves up)
RoundedQuotient(a, b) == (2 * a + b) \div (2 * b)

\* int(a / b) for a >= 0, b > 0: the quotient, truncated toward zero
IntOfQuotient(a, b) == a \div b

\* client.order_market_buy / client.order_market_sell: the exchange receives
\* the order and accepts it (ok) or refuses it, which raises in the caller
SubmitOrder(side, symbol, quantity, ok) ==
    /\ order' = [id |-> order.id + 1, side |-> side, symbol |-> symbol,
                 quantity |-> quantity, ok |-> ok]
    /\ lastBuy' = IF side = "BUY" /\ ok
                  THEN <<[symbol |-> symbol, quantity |-> quantity]>>
                  ELSE lastBuy
    /\ holding' = IF ok THEN side = "BUY" ELSE holding

\* Bot.place_market_buy
PlaceMarketBuy(current_price, ok) ==
    LET op == "place_market_buy"
        arg == <<current_price>>
    IN  /\ order.id < MaxOrders
        /\ entered' = TRUE
        /\ UNCHANGED <<connected, params, dataVars>>
        /\ IF trade_amount = <<>>
           THEN /\ call' = Raised(op, arg, "TypeError")
                /\ UNCHANGED <<amount, order, lastBuy, holding>>
           ELSE IF current_price = 0
           THEN /\ call' = Raised(op, arg, "ZeroDivisionError")
                /\ UNCHANGED <<amount, order, lastBuy, holding>>
           ELSE /\ amount' = <<IntOfQuotient(trade_amount[1], current_price)>>
                /\ IF ~connected
                   THEN /\ call' = Raised(op, arg, "AttributeError")
                        /\ UNCHANGED <<order, lastBuy, holding>>
                   ELSE /\ SubmitOrder("BUY", asset, amount'[1], ok)
                        /\ call' = IF ok THEN Returned(op, arg, <<>>)
                                   ELSE Raised(op, arg, "BinanceAPIException")

\* Bot.place_market_sell
PlaceMarketSell(ok) ==
    LET op == "place_market_sell"
    IN  /\ order.id < MaxOrders
        /\ UNCHANGED <<connected, params, amount, entered, dataVars>>
        /\ IF ~connected \/ amount = <<>>
           THEN /\ call' = Raised(op, <<>>, "AttributeError")
                /\ UNCHANGED <<order, lastBuy, holding>>
           ELSE /\ SubmitOrder("SELL", asset, amount[1], ok)
                /\ call' = IF ok THEN Returned(op, <<>>, <<>>)
                           ELSE Raised(op, <<>>, "BinanceAPIException")

----------------------------------------------------------------------------
\* The klines and the lower band.

FetchWindow == 25   \* get_bbands: self.get_klines(25)
\* (variant of BandWindow: range(19))
BandWindow19 == 20 - 1
BandWindow == 20    \* get_bbands: range(20)

\* a kline as the exchange sends it; of its fields the Bot reads the close
\* (index 4), and the open time (index 0) dates it
Kline(open_time, close) == [open_time |-> open_time, close |-> close]

\* client.get_klines(limit=limit_): the answers of the exchange, klines sent
\* oldest first, one per interval.  It holds fewer than limit_ klines of a
\* young market (n of them, all closing at c0), else limit_ klines, which
\* close at c0 but for the p-th, which closes at c1
Klines(n, c0, p, c1) ==
    [i \in 1..n |-> Kline(i, IF i = p THEN c1 ELSE c0)]
Answers(limit_) ==
    {Klines(n, c0, 0, c0) : n \in 0..limit_, c0 \in Closes}
    \cup {Klines(limit_, pc[2], pc[1], pc[3]) :
             pc \in (1..limit_) \X Closes \X Closes}

\* what client.get_klines does: answer (ok) or raise
Exchange(limit_) ==
    {[ok |-> TRUE, klines |-> k] : k \in Answers(limit_)}
    \cup {[ok |-> FALSE, klines |-> <<>>]}

\* (variant of Reverse: the list is left as the exchange sent it)
NotReversed(s) == s

\* list.reverse()
Reverse(s) == [i \in 1..Len(s) |-> s[Len(s) + 1 - i]]

\* the exceptions that leave get_klines
FetchErrors == {"AttributeError", "KeyError", "BinanceAPIException"}

\* Bot.get_klines: what it raises or returns, given the exchange's answer
\* (ok: the exchange answers with klines; otherwise the client raises)
KlinesStatus(ok) ==
    IF ~connected \/ time_interval = NoAttr THEN "AttributeError"
    ELSE IF time_interval \notin DOMAIN kline_intervals THEN "KeyError"
    ELSE IF ~ok THEN "BinanceAPIException"
    ELSE "ok"

\* the request of get_klines reaches the exchange once self.client and the
\* three arguments have been evaluated
KlinesRequested(ok) == KlinesStatus(ok) \in {"ok", "BinanceAPIException"}

KlinesValue(ok, klines) == IF KlinesStatus(ok) = "ok" THEN Reverse(klines) ELSE <<>>

\* Bot.get_klines: its effect on the exchange
Fetch(limit_, ok, klines) ==
    IF KlinesRequested(ok)
    THEN /\ nRequests' = nRequests + 1
         /\ request' = [symbol |-> asset,
                        interval |-> kline_intervals[time_interval],
                        limit |-> limit_]
         /\ response' = IF ok THEN klines ELSE <<>>
    ELSE UNCHANGED <<nRequests, request, response>>

\* Bot.get_klines
GetKlines(limit_, ok, klines) ==
    /\ nRequests < MaxRequests
    /\ Fetch(limit_, ok, klines)
    /\ call' = IF KlinesStatus(ok) = "ok"
               THEN Returned("get_klines", <<limit_>>, KlinesValue(ok, klines))
               ELSE Raised("get_klines", <<limit_>>, KlinesStatus(ok))
    /\ UNCHANGED <<connected, params, tradeVars, last_20_closes>>

\* sum()
RECURSIVE Sum(_)
Sum(s) == IF s = <<>> THEN 0 ELSE s[1] + Sum(Tail(s))

\* the largest r in lo..hi with r * r <= n
RECURSIVE RootBetween(_, _, _)
RootBetween(n, lo, hi) ==
    IF lo = hi THEN lo
    ELSE LET mid == (lo + hi + 1) \div 2
         IN  IF mid * mid <= n THEN RootBetween(n, mid, hi)
             ELSE RootBetween(n, lo, mid - 1)

\* math.sqrt, to the nearest integer
NearestRoot(n) ==
    LET r == RootBetween(n, 0, 46340)
    IN  IF n - r * r <= r THEN r ELSE r + 1

\* (variant of First20Closes: klines[-20:], the tail of the list)
Last20Closes(klines) ==
    [i \in 1..BandWindow |-> klines[Len(klines) - BandWindow + i].close]

\* [float(klines[i][4]) for i in range(20)]
First20Closes(klines) == [i \in 1..BandWindow |-> klines[i].close]

\* simple_ma, squared_list, standard_deviation and lower_band of get_bbands,
\* the band in units of 10^-BandDigits, rounded to the nearest unit.  With
\* S the sum of the closes, simple_ma = S / 20, and
\* sum(squared_list) = sum((20 * close - S)^2) / 400, so that
\* (2 * standard_deviation)^2 = sum((20 * close - S)^2) / 2000
LowerBand(closes) ==
    LET scale == 10 ^ BandDigits
        S == Sum(closes)
        D == Sum([i \in 1..Len(closes) |-> (20 * closes[i] - S) * (20 * closes[i] - S)])
        simple_ma == (S * scale) \div 20
        twice_deviation == NearestRoot(((scale * scale) \div 2000) * D)
    IN  simple_ma - twice_deviation

\* Bot.get_bbands
GetBbands(ok, klines) ==
    LET op == "get_bbands"
        reversed == KlinesValue(ok, klines)
    IN  /\ nRequests < MaxRequests
        /\ Fetch(FetchWindow, ok, klines)
        /\ UNCHANGED <<connected, params, tradeVars>>
        /\ IF KlinesStatus(ok) # "ok"
           THEN /\ call' = Raised(op, <<>>, KlinesStatus(ok))
                /\ last_20_closes' = <<>>
           ELSE IF Len(reversed) < BandWindow
           THEN /\ call' = Raised(op, <<>>, "IndexError")
                /\ last_20_closes' = <<>>
           ELSE /\ last_20_closes' = First20Closes(reversed)
                /\ call' = Returned(op, <<>>, <<LowerBand(last_20_closes')>>)

\* Bot.get_current_asset_price
GetCurrentAssetPrice(ok, klines) ==
    LET op == "get_current_asset_price"
        reversed == KlinesValue(ok, klines)
    IN  /\ nRequests < MaxRequests
        /\ Fetch(1, ok, klines)
        /\ UNCHANGED <<connected, params, tradeVars, last_20_closes>>
        /\ call' = IF KlinesStatus(ok) # "ok"
                   THEN Raised(op, <<>>, KlinesStatus(ok))
                   ELSE IF Len(reversed) = 0
                   THEN Raised(op, <<>>, "IndexError")
                   ELSE Returned(op, <<>>, <<reversed[1].close>>)

----------------------------------------------------------------------------
\* The runs of the order pair: connect, setup_params, place_market_buy and
\* place_market_sell, called in any order, the exchange accepting or refusing
\* each order.
Next ==
    \/ Connect
    \/ \E a \in Assets, t \in TradeAmounts, i \in TradeIntervalCodes :
          SetupParams(a, t, i)
    \/ \E p \in Prices, ok \in BOOLEAN : PlaceMarketBuy(p, ok)
    \/ \E ok \in BOOLEAN : PlaceMarketSell(ok)

Spec == Init /\ [][Next]_vars

\* The runs of the market data: connect, setup_params, get_klines, get_bbands
\* and get_current_asset_price, called in any order; the exchange answers a
\* request for limit klines with at most limit klines, or fails it.
NextData ==
    \/ Connect
    \/ \E i \in IntervalCodes : SetupParams("BNBBTC", 1, i)
    \/ \E limit_ \in 1..MaxLimit : \E x \in Exchange(limit_) :
          GetKlines(limit_, x.ok, x.klines)
    \/ \E x \in Exchange(FetchWindow) : GetBbands(x.ok, x.klines)
    \/ \E x \in Exchange(1) : GetCurrentAssetPrice(x.ok, x.klines)

SpecData == Init /\ [][NextData]_vars

----------------------------------------------------------------------------
\* Properties of the order pair, checked under Spec.

\* a step in which the exchange receives a new order of the given side
NewOrder(side) == order'.id = order.id + 1 /\ order'.side = side

\* C1: place_market_sell called on a Bot on which place_market_buy was never
\* called raises (self.amount does not exist: AttributeError, the error the
\* design names NoOpenPositionError) and no order has reached the exchange.
C1_SellBeforeBuyRaises ==
    (call.op = "place_market_sell" /\ ~entered)
        => (call.status = "AttributeError" /\ order.id = 0)

C1_Witness ==
    /\ call.op = "place_market_sell"
    /\ ~entered
    /\ connected
    /\ trade_amount # <<>>
    /\ call.status = "AttributeError"

\* C2: when the exchange refuses the market buy of place_market_buy, the
\* stored quantity self.amount is what it was before the call, the position
\* is as it was before the call, and the call raises.
C2_RefusedBuyCommitsNothing ==
    [][(NewOrder("BUY") /\ ~order'.ok)
          => (amount' = amount /\ holding' = holding /\ call'.status # "ok")]_vars

\* C3: every market sell order the exchange receives carries the quantity of
\* the most recent market buy the exchange accepted.
C3_SellCarriesLastAcceptedBuy ==
    order.side = "SELL"
        => (lastBuy # <<>> /\ order.quantity = lastBuy[1].quantity)

\* C4: once a market sell was accepted for the last accepted market buy, a
\* further place_market_sell submits no sell order until another buy is
\* accepted.
C4_NoSellAfterAcceptedSell ==
    [][(lastBuy # <<>> /\ ~holding) => ~NewOrder("SELL")]_vars

\* C5 as stated: once setup_params has been called, no later call changes the
\* stored asset, trade amount or interval.
C5_ParamsImmutable ==
    [][time_interval # NoAttr => UNCHANGED params]_vars

\* C5 as amended: the stored asset, trade amount and interval change in a
\* setup_params call only, which overwrites all three with its arguments,
\* and an order carries the asset stored when it is submitted.
C5_ParamsSetBySetupOnly ==
    [][/\ params' # params
          => /\ call'.op = "setup_params"
             /\ call'.arg = <<asset', trade_amount'[1], time_interval'>>
       /\ order'.id # order.id
          => (order'.symbol = asset /\ UNCHANGED params)]_vars

\* a second setup_params, called between an accepted buy and the sell, has
\* changed the asset: the sell carries the new asset, not the buy's
C5_Witness ==
    /\ order.side = "SELL"
    /\ lastBuy # <<>>
    /\ order.symbol # lastBuy[1].symbol
    /\ order.symbol = asset

----------------------------------------------------------------------------
\* Properties of the market data, checked under SpecData.

SupportedCodes == {"15m", "30m", "1H", "2H", "4H", "6H", "12H", "1D"}

\* C6 as stated: get_klines(limit_), answered limit_ klines oldest first,
\* returns limit_ klines in strictly ascending order of open time.
C6_ReturnsAscending ==
    (call.op = "get_klines" /\ call.status = "ok" /\ Len(response) = call.arg[1])
        => /\ Len(call.value) = call.arg[1]
           /\ \A i \in 1..(Len(call.value) - 1) :
                 call.value[i].open_time < call.value[i + 1].open_time

\* C6 as amended: get_klines(limit_), answered limit_ klines oldest first,
\* returns those limit_ klines in strictly descending order of open time,
\* the newest first.
C6_ReturnsDescending ==
    (call.op = "get_klines" /\ call.status = "ok" /\ Len(response) = call.arg[1])
        => /\ Len(call.value) = call.arg[1]
           /\ \A i \in 1..(Len(call.value) - 1) :
                 call.value[i].open_time > call.value[i + 1].open_time
           /\ \A i \in 1..Len(call.value) :
                 \E j \in 1..Len(response) : call.value[i] = response[j]

C6_Witness ==
    /\ call.op = "get_klines"
    /\ call.status = "ok"
    /\ call.arg = <<3>>
    /\ Len(response) = 3
    /\ time_interval = "12H"
    /\ call.value[1].open_time = 3

\* C7: get_klines on a Bot whose interval code is not one of the eight
\* supported codes, or was never set, raises (KeyError, or AttributeError
\* when there is no code: the error the design names InvalidIntervalError)
\* and the exchange receives no kline request.
C7_BadIntervalNoRequest ==
    [][(call'.op = "get_klines" /\ time_interval \notin SupportedCodes)
          => /\ call'.status \in {"KeyError", "AttributeError"}
             /\ UNCHANGED <<nRequests, request, response>>]_vars

C7_Witness ==
    /\ call.op = "get_klines"
    /\ connected
    /\ time_interval = "5m"
    /\ call.status = "KeyError"
    /\ nRequests = 0

\* C8: get_bbands, answered fewer than 20 klines, raises (IndexError, the
\* error the design names InsufficientDataError) and returns no band.
C8_ShortWindowRaises ==
    (/\ call.op = "get_bbands"
     /\ call.status \notin {"AttributeError", "KeyError", "BinanceAPIException"}
     /\ Len(response) < 20)
        => (call.status = "IndexError" /\ call.value = <<>> /\ last_20_closes = <<>>)

C8_Witness ==
    /\ call.op = "get_bbands"
    /\ call.status = "IndexError"
    /\ nRequests = 1
    /\ Len(response) = 19

\* the number of closes c among the klines at the positions I of the answer
CountInAnswer(I, c) == Cardinality({i \in I : response[i].close = c})
CountInWindow(c) ==
    Cardinality({i \in 1..Len(last_20_closes) : last_20_closes[i] = c})

\* C10 as stated: of an answer of 25 klines, oldest first, get_bbands averages
\* the closes at positions 1..20.
C10_AveragesOldestTwenty ==
    (call.op = "get_bbands" /\ call.status = "ok" /\ Len(response) = 25)
        => \A c \in Closes : CountInWindow(c) = CountInAnswer(1..20, c)

\* C10 as amended: of an answer of 25 klines, oldest first, get_bbands averages
\* the closes at positions 6..25, the newest first; the 5 oldest are not read.
C10_AveragesNewestTwenty ==
    (call.op = "get_bbands" /\ call.status = "ok" /\ Len(response) = 25)
        => /\ Len(last_20_closes) = 20
           /\ \A i \in 1..20 : last_20_closes[i] = response[26 - i].close

\* the newest kline closes apart from the others, and is in the window
C10_Witness ==
    /\ call.op = "get_bbands"
    /\ call.status = "ok"
    /\ Len(response) = 25
    /\ response[25].close # response[1].close
    /\ last_20_closes[1] = response[25].close
    /\ last_20_closes[20] = response[6].close

====
